---- MODULE Spec2Model ----
(***************************************************************************)
(* The stream-ingestion loop of twitter_stream: stream_data and            *)
(* RateLimitHeaders (src/stream_tweets.rs) and the reconnecting publisher  *)
(* loop of examples/zmq_publisher.rs (examples/zmq_pub.rs has the same     *)
(* loop with the counters held in locals instead of Summary).              *)
(***************************************************************************)
EXTENDS Integers, Sequences, FiniteSets, TLC

\* ------------------------------------------------------------------ bounds
MaxDraws == 5
MaxTime == 1
MaxLimit == 2
MaxResets == 1
MaxLines == 3
MaxBatch == 2

\* ------------------------------------------------------- program constants
MinChunkLen == 10

\* ------------------------------------------------------------ Option<T>
None == [tag |-> "None"]
Some(v) == [tag |-> "Some", val |-> v]
IsSome(o) == o.tag = "Some"
OptNat(n) == {None} \cup {Some(v) : v \in 0..n}

\* ------------------------------------------------------------ lib.rs
tweetid2url(id) == <<"https://twitter.com/i/web/status/", id>>

\* ------------------------------------------------- network chunks (input)
\* A chunk of the response body is its bytes (text, one character each),
\* their number and what serde_json reads in them: NoDoc (bytes that are no
\* StreamResponse document) or a document with a tweet id and the optional
\* url field of StreamResponseDataRaw.
NoDoc == [id |-> "", url |-> None]
TweetIds == {"A", "B"}
WireDocs == [id : TweetIds, url : {None}]
Fill(len) == [i \in 1..len |-> "a"]
RawChunk(text, doc) == [kind |-> "bytes", len |-> Len(text), doc |-> doc, text |-> text]
Bytes(len, doc) == RawChunk(Fill(len), doc)
ReqwestErr == [kind |-> "err", len |-> 0, doc |-> NoDoc, text |-> <<>>]
ChunkItems ==
    {Bytes(n, NoDoc) : n \in {MinChunkLen - 1, MinChunkLen}}
        \cup {Bytes(MinChunkLen + 2, d) : d \in WireDocs}
        \cup {ReqwestErr}

\* serde_json::from_slice::<StreamResponse>: the derived Deserialize of
\* StreamResponseData goes through StreamResponseDataRaw and recomputes url.
StreamResponseDataKeepsUrl(raw) ==
    [id |-> raw.id, url |-> IF raw.url = None THEN tweetid2url(raw.id) ELSE raw.url.val]
StreamResponseData_from(raw) == [id |-> raw.id, url |-> tweetid2url(raw.id)]
from_slice(chunk) ==
    IF chunk.doc = NoDoc
    THEN [ok |-> FALSE, val |-> NoDoc, err |-> "serde_json::Error"]
    ELSE [ok |-> TRUE, val |-> StreamResponseData_from(chunk.doc), err |-> "none"]

\* serde_json::to_string(&tweet_data): the derived Serialize writes every
\* field, url included, and cannot fail for these types.
to_string(tweet) == [ok |-> TRUE, val |-> [id |-> tweet.id, url |-> Some(tweet.url)]]

\* format!("{:?}\n\n", chunk): the Debug of Bytes writes b" and ", escapes
\* the quote, the backslash and the newline in between and leaves a
\* printable byte as it is; two newlines follow.
EscapeByte(c) ==
    IF c = "\n" THEN <<"\\", "n">>
    ELSE IF c = "\"" THEN <<"\\", "\"">>
    ELSE IF c = "\\" THEN <<"\\", "\\">>
    ELSE <<c>>
RECURSIVE EscapeBytes(_)
EscapeBytes(text) ==
    IF text = <<>> THEN <<>> ELSE EscapeByte(Head(text)) \o EscapeBytes(Tail(text))
fmt_bytes(text) == <<"b", "\"">> \o EscapeBytes(text) \o <<"\"">>
fmt_debugBare(text) == fmt_bytes(text)
fmt_debug(text) == fmt_bytes(text) \o <<"\n", "\n">>

\* The closure stream_data maps over bytes_stream().
SmallChunkThresholdInclusive(len) == len <= MinChunkLen
SmallChunkThresholdBelow(len) == len < MinChunkLen - 1
SmallChunkThreshold(len) == len < MinChunkLen
MapChunkParseAsReqwest(item) ==
    IF item.kind = "bytes"
    THEN IF SmallChunkThreshold(item.len)
         THEN [kind |-> "SmallChunk", val |-> NoDoc, msg |-> <<>>,
               source |-> "none"]
         ELSE IF from_slice(item).ok
              THEN [kind |-> "Ok", val |-> from_slice(item).val, msg |-> <<>>,
               source |-> "none"]
              ELSE [kind |-> "Reqwest", val |-> NoDoc, msg |-> <<>>,
                    source |-> "reqwest::Error"]
    ELSE [kind |-> "Reqwest", val |-> NoDoc, msg |-> <<>>, source |-> "reqwest::Error"]
MapChunk(item) ==
    IF item.kind = "bytes"
    THEN IF SmallChunkThreshold(item.len)
         THEN [kind |-> "SmallChunk", val |-> NoDoc, msg |-> <<>>,
               source |-> "none"]
         ELSE IF from_slice(item).ok
              THEN [kind |-> "Ok", val |-> from_slice(item).val, msg |-> <<>>,
               source |-> "none"]
              ELSE [kind |-> "Parse", val |-> NoDoc, msg |-> fmt_debug(item.text),
                    source |-> from_slice(item).err]
    ELSE [kind |-> "Reqwest", val |-> NoDoc, msg |-> <<>>, source |-> "reqwest::Error"]

\* ------------------------------------------------------ RateLimitHeaders
\* A header value is a sequence of characters, or absent.
Digits == <<"0", "1", "2", "3", "4", "5", "6", "7", "8", "9">>
IsDigit(c) == \E i \in 1..10 : Digits[i] = c
DigitVal(c) == (CHOOSE i \in 1..10 : Digits[i] = c) - 1
RECURSIVE ParseDigits(_, _)
ParseDigits(s, acc) ==
    IF s = <<>> THEN acc ELSE ParseDigits(Tail(s), acc * 10 + DigitVal(Head(s)))
\* o.to_str()?.parse()? on a present header: usize and u64 from_str take an
\* optional leading "+" and then one or more decimal digits, nothing else.
ParseHeader(s) ==
    LET body == IF s # <<>> /\ Head(s) = "+" THEN Tail(s) ELSE s
    IN  IF body # <<>> /\ \A i \in 1..Len(body) : IsDigit(body[i])
        THEN [ok |-> TRUE, val |-> ParseDigits(body, 0)]
        ELSE [ok |-> FALSE, val |-> 0]
HeaderFieldLenient(h) ==
    IF h = None \/ ~ParseHeader(h.val).ok THEN [ok |-> TRUE, val |-> None]
    ELSE [ok |-> TRUE, val |-> Some(ParseHeader(h.val).val)]
HeaderField(h) ==
    IF h = None THEN [ok |-> TRUE, val |-> None]
    ELSE [ok |-> ParseHeader(h.val).ok, val |-> Some(ParseHeader(h.val).val)]
NoRateLimit == [limit |-> None, reset |-> None, remaining |-> None]
from_headers(hm) ==
    LET l == HeaderField(hm.limit)
        r == HeaderField(hm.reset)
        m == HeaderField(hm.remaining)
    IN  IF l.ok /\ r.ok /\ m.ok
        THEN [ok |-> TRUE,
              val |-> [limit |-> l.val, reset |-> r.val, remaining |-> m.val]]
        ELSE [ok |-> FALSE, val |-> NoRateLimit]

\* reset.checked_sub(now)
checked_subStrict(a, b) == IF a > b THEN Some(a - b) ELSE None
checked_sub(a, b) == IF a >= b THEN Some(a - b) ELSE None
DurationIgnoresRemaining(rl, t) ==
    IF IsSome(rl.reset) THEN checked_sub(rl.reset.val, t) ELSE None
duration_until_reset(rl, t) ==
    IF rl.remaining = Some(0) /\ IsSome(rl.reset)
    THEN checked_sub(rl.reset.val, t)
    ELSE None

\* ------------------------------------------------------------ stream_data
\* The response of the GET: the request failed (net = FALSE) or a response
\* with a status and the three rate-limit headers arrived.
HeaderMaps ==
    {[limit |-> None, reset |-> None, remaining |-> None],
     [limit |-> Some(<<"5", "0">>), reset |-> None, remaining |-> Some(<<"0">>)],
     [limit |-> Some(<<"5", "0">>), reset |-> Some(<<"x">>), remaining |-> Some(<<"0">>)],
     [limit |-> Some(<<"5", "0">>), reset |-> Some(<<Digits[MaxTime + 1]>>), remaining |-> Some(<<"1">>)]}
        \cup {[limit |-> Some(<<"5", "0">>), reset |-> Some(<<Digits[t + 1]>>),
               remaining |-> Some(<<"0">>)] : t \in 0..MaxTime}
Responses == [net : BOOLEAN, status : {200, 429}, headers : HeaderMaps]
\* .send().await? fails with the reqwest error, from_headers(..)? with the
\* header error; the status of the response is not looked at.
stream_dataSkipsBadHeaders(resp) ==
    IF ~resp.net
    THEN [ok |-> FALSE, val |-> NoRateLimit, err |-> "reqwest"]
    ELSE [ok |-> TRUE, val |-> from_headers(resp.headers).val, err |-> "none"]
stream_data(resp) ==
    IF ~resp.net
    THEN [ok |-> FALSE, val |-> NoRateLimit, err |-> "reqwest"]
    ELSE LET rate_limit_headers == from_headers(resp.headers)
         IN  IF rate_limit_headers.ok
             THEN [ok |-> TRUE, val |-> rate_limit_headers.val, err |-> "none"]
             ELSE [ok |-> FALSE, val |-> NoRateLimit, err |-> "header"]

\* ------------------------------------------------------------------ state
VARIABLES
    opts,               \* Opts: limit, max_resets
    pc,                 \* where main is suspended
    result,             \* what main returned
    error,              \* the error inside an Err that main returned
    reported,           \* how many times "Maximum number of connection resets"
                        \* was printed
    send_result,        \* history, kept under SpecSend only: what the last
                        \* publisher.send returned
    reason,             \* which exit main took
    connection_resets,
    finish,
    summary,            \* Summary: processed, errors
    rate_limit,         \* RateLimitHeaders of the current session
    stream,             \* the session main reads: the number of the open that made it
    publisher,          \* the messages handed to publisher.send, in order
    now,                \* SystemTime::now()
    wake_at,            \* deadline of the tokio::time::sleep of this reconnect
    emitted,            \* history: the tweet documents drawn, each with its session
    seen,               \* history: how many chunks under 10 bytes (small), longer chunks
                        \* spelling no document (parse) and read failures (transport)
                        \* were drawn
    opens,              \* history: the number of stream_data calls that returned Ok
    scen,               \* history: how many items of Scenario the run has drawn so far,
                        \* -1 once the run has left it
    open_fault,         \* history: what was wrong with the response to the last
                        \* stream_data call
    held,               \* the sessions main owns: made and not yet dropped
    failed,             \* history: the sessions a read failure was drawn from
    live_peak,          \* history: the most sessions in existence at one moment
    open_headers,       \* history: the header map of the last response that
                        \* stream_data made a session of
    closed,             \* history: the body of a session has ended
    call,               \* a library function applied on its own: its name, its
                        \* argument and what it returned
    \* examples/jsonl2es.rs
    file,               \* the lines of the JSON Lines file
    batch_reader,       \* BatchReader: the reader's position in the file,
                        \* batch_size, status, data
    es_pc,              \* where jsonl2es's main is
    es_summary,         \* its Summary: created, updated, failed
    bulk,               \* the bodies of the bulk requests sent, in order
    returned,           \* history: what each read_batch call returned and the
                        \* status it left
    \* src/main.rs, the command without subcommand
    cmd_pc,             \* where its stream_data is
    cmd_result,         \* what main returned
    cmd_log,            \* the lines written to stdout and stderr, in order
    cmd_drawn           \* history: what send() and each res.chunk() gave

vars == <<opts, pc, result, error, reported, send_result, reason,
          connection_resets, finish, summary, rate_limit, stream, publisher, now,
          wake_at, emitted, seen, opens, scen, open_fault, held, failed,
          live_peak, open_headers, closed, call, file, batch_reader, es_pc,
          es_summary, bulk, returned, cmd_pc, cmd_result, cmd_log, cmd_drawn>>
batchVars == <<file, batch_reader, es_pc, es_summary, bulk, returned>>
cmdVars == <<cmd_pc, cmd_result, cmd_log, cmd_drawn>>

\* jsonl2es and the stream command before they start
BatchIdle ==
    /\ file = <<>>
    /\ batch_reader = [pos |-> 1, batch_size |-> 1, status |-> "Reading", data |-> <<>>]
    /\ es_pc = "start"
    /\ es_summary = [created |-> 0, updated |-> 0, failed |-> 0]
    /\ bulk = <<>>
    /\ returned = <<>>
CmdIdle ==
    /\ cmd_pc = "connecting"
    /\ cmd_result = "running"
    /\ cmd_log = <<>>
    /\ cmd_drawn = <<>>

NoCall == [fn |-> "none"]

Draws == Len(emitted) + seen.small + seen.parse + seen.transport

Init ==
    /\ opts \in [limit : OptNat(MaxLimit), max_resets : OptNat(MaxResets)]
    /\ pc = "connecting"
    /\ result = "running"
    /\ error = "none"
    /\ reported = 0
    /\ send_result = "none"
    /\ reason = "none"
    /\ connection_resets = 0
    /\ finish = FALSE
    /\ summary = [processed |-> 0, errors |-> 0]
    /\ rate_limit = NoRateLimit
    /\ stream = 0
    /\ publisher = <<>>
    /\ now = 0
    /\ wake_at = 0
    /\ emitted = <<>>
    /\ seen = [small |-> 0, parse |-> 0, transport |-> 0]
    /\ opens = 0
    /\ scen = 0
    /\ open_fault = "none"
    /\ held = {}
    /\ failed = {}
    /\ live_peak = 0
    /\ open_headers = [limit |-> None, reset |-> None, remaining |-> None]
    /\ closed = FALSE
    /\ call = NoCall
    /\ BatchIdle
    /\ CmdIdle

\* --------------------------------------------------------------- history
\* The scenario of spec.md section 8: TooSmall, Event(A), ParseFailure,
\* Event(B), TransportFailure.
Scenario ==
    <<Bytes(MinChunkLen - 1, NoDoc),
      Bytes(MinChunkLen + 2, [id |-> "A", url |-> None]),
      Bytes(MinChunkLen, NoDoc),
      Bytes(MinChunkLen + 2, [id |-> "B", url |-> None]),
      ReqwestErr>>
ScenarioStep(n, item) ==
    IF n >= 0 /\ n < Len(Scenario) /\ item = Scenario[n + 1] THEN n + 1 ELSE -1

\* stream.next().await returned item: what the wire delivered, recorded from
\* the item itself and not from what the loop makes of it.
Drawn(item) ==
    /\ pc = "streaming"
    /\ Draws < MaxDraws
    /\ scen' = ScenarioStep(scen, item)
    /\ emitted' =
         IF item.kind = "bytes" /\ item.doc # NoDoc
         THEN Append(emitted, [session |-> stream, doc |-> item.doc])
         ELSE emitted
    /\ seen' =
         IF item.kind = "err" THEN [seen EXCEPT !.transport = @ + 1]
         ELSE IF item.doc # NoDoc THEN seen
         ELSE IF item.len < 10 THEN [seen EXCEPT !.small = @ + 1]
         ELSE [seen EXCEPT !.parse = @ + 1]
    /\ failed' = IF item.kind = "err" THEN failed \cup {stream} ELSE failed

\* What the wire held when stream_data was called: no response at all, a
\* response with a rate-limit header that is not a number, or neither.
OpenFault(resp) ==
    IF ~resp.net THEN "net"
    ELSE IF \E f \in {"limit", "reset", "remaining"} :
               /\ resp.headers[f] # None
               /\ \E i \in 1..Len(resp.headers[f].val) : resp.headers[f].val[i] = "x"
    THEN "header"
    ELSE "none"

\* ---------------------------------------------------------------- actions
\* stream = s: the assignment drops the session the variable held
AssignStreamLeaks(owned, s) == owned \cup {s}
AssignStream(owned, s) == {s}
Max(a, b) == IF a >= b THEN a ELSE b

\* main returns
Return(res, why) ==
    /\ pc' = "done"
    /\ result' = res
    /\ reason' = why
    /\ held' = {}

\* let (mut rate_limit, mut stream) = stream_data(&bearer_token).await?;
Connect(resp) ==
    /\ pc = "connecting"
    /\ open_fault' = OpenFault(resp)
    /\ IF stream_data(resp).ok
       THEN /\ rate_limit' = stream_data(resp).val
            /\ opens' = opens + 1
            /\ stream' = opens + 1
            /\ pc' = "streaming"
            /\ held' = AssignStream(held, opens + 1)
            /\ live_peak' = Max(live_peak, Cardinality(held) + 1)
            /\ open_headers' = resp.headers
            /\ UNCHANGED <<result, reason, error>>
       ELSE /\ Return("Err", "connect")
            /\ error' = stream_data(resp).err
            /\ UNCHANGED <<rate_limit, opens, stream, live_peak, open_headers>>
    /\ UNCHANGED <<opts, connection_resets, finish, summary, publisher, now,
                   wake_at, emitted, seen, scen, reported, send_result>>
    /\ UNCHANGED <<failed, closed, call, batchVars, cmdVars>>

\* if let Some(limit) = opts.limit { if summary.processed == limit { finish = true } }
LimitReached(processed, limit) == IsSome(limit) /\ processed = limit.val

\* publisher.send(&msg, 0).ok(): the message is handed to the socket and the
\* result of the send is dropped.
SendDedup(sent, msg) ==
    IF \E i \in 1..Len(sent) : sent[i] = msg THEN sent ELSE Append(sent, msg)
send(sent, msg) == Append(sent, msg)

\* publisher.send(..).ok(); summary.processed += 1; the Result of the send
\* (sent: it was Ok) is turned into an Option and dropped.
CountTweetIfSent(s, sent) ==
    IF sent THEN [s EXCEPT !.processed = @ + 1] ELSE [s EXCEPT !.errors = @ + 1]
CountTweet(s, sent) == [s EXCEPT !.processed = @ + 1]

\* Ok(tweet_data) arm. term.clear_last_lines and println! are taken to succeed.
TweetArm(item, sent) ==
    /\ Drawn(item)
    /\ MapChunk(item).kind = "Ok"
    /\ LET msg == to_string(MapChunk(item).val)
       IN  IF msg.ok
           THEN /\ publisher' = send(publisher, msg.val)
                /\ summary' = CountTweet(summary, sent)
                /\ finish' = (finish \/ LimitReached(summary'.processed, opts.limit))
                /\ IF finish'
                   THEN Return("Ok", "limit")
                   ELSE UNCHANGED <<pc, result, reason, held>>
           ELSE UNCHANGED <<publisher, summary, finish, pc, result, reason, held>>
    /\ UNCHANGED <<opts, connection_resets, rate_limit, stream, now, wake_at,
                   opens, error, reported, open_fault, live_peak, open_headers,
                   closed>>

\* the arm, whatever the send returned
OnTweet(item) ==
    /\ \E sent \in BOOLEAN : TweetArm(item, sent)
    /\ UNCHANGED send_result
    /\ UNCHANGED <<call, batchVars, cmdVars>>

\* Err(StreamError::SmallChunk) => {}
OnSmallChunk(item) ==
    /\ Drawn(item)
    /\ MapChunk(item).kind = "SmallChunk"
    /\ UNCHANGED <<opts, pc, result, reason, connection_resets, finish, summary,
                   rate_limit, stream, publisher, now, wake_at, opens>>
    /\ UNCHANGED <<error, reported, send_result, open_fault>>
    /\ UNCHANGED <<held, live_peak, open_headers, closed, call, batchVars, cmdVars>>

\* Err(StreamError::Parse(err)) => { eprintln!(..); summary.errors += 1; }
OnParseErrorFatal(item) ==
    /\ Drawn(item)
    /\ MapChunk(item).kind = "Parse"
    /\ summary' = [summary EXCEPT !.errors = @ + 1]
    /\ Return("Err", "parse")
    /\ error' = "parse"
    /\ UNCHANGED <<opts, connection_resets, finish, rate_limit, stream, publisher,
                   now, wake_at, opens, reported, send_result, open_fault, live_peak,
                   open_headers, closed, call, batchVars, cmdVars>>
OnParseError(item) ==
    /\ Drawn(item)
    /\ MapChunk(item).kind = "Parse"
    /\ summary' = [summary EXCEPT !.errors = @ + 1]
    /\ UNCHANGED <<opts, pc, result, reason, connection_resets, finish,
                   rate_limit, stream, publisher, now, wake_at, opens>>
    /\ UNCHANGED <<error, reported, send_result, open_fault>>
    /\ UNCHANGED <<held, live_peak, open_headers, closed, call, batchVars, cmdVars>>

\* if let Some(max_resets) = opts.max_resets { if connection_resets >= max_resets { break } }
ResetsExhaustedStrict(resets, max_resets) == IsSome(max_resets) /\ resets > max_resets.val
ResetsExhaustedEarly(resets, max_resets) == IsSome(max_resets) /\ resets + 1 >= max_resets.val
ResetsExhausted(resets, max_resets) == IsSome(max_resets) /\ resets >= max_resets.val

\* Where the Reqwest arm goes after counting the error: out of the loop, into
\* the rate-limit sleep, or straight to the stream_data call.
AfterErrorSleepFirst(resets, max_resets, rl, t) ==
    IF IsSome(duration_until_reset(rl, t)) THEN "sleeping"
    ELSE IF ResetsExhausted(resets, max_resets) THEN "done"
    ELSE "reconnecting"
AfterErrorNoSleep(resets, max_resets, rl, t) ==
    IF ResetsExhausted(resets, max_resets) THEN "done" ELSE "reconnecting"
AfterErrorKeepsReading(resets, max_resets, rl, t) ==
    IF ResetsExhausted(resets, max_resets) THEN "done" ELSE "streaming"
AfterError(resets, max_resets, rl, t) ==
    IF ResetsExhausted(resets, max_resets) THEN "done"
    ELSE IF IsSome(duration_until_reset(rl, t)) THEN "sleeping"
    ELSE "reconnecting"

\* println!("Maximum number of connection resets ({}) reached...", max_resets);
\* break;
PrintOnEveryFailure(to, n) == n + 1
PrintMaxResets(to, n) == IF to = "done" THEN n + 1 ELSE n

\* Err(StreamError::Reqwest(err)) arm, up to its first await.
OnReqwestError(item) ==
    /\ Drawn(item)
    /\ MapChunk(item).kind = "Reqwest"
    /\ summary' = [summary EXCEPT !.errors = @ + 1]
    /\ LET to == AfterError(connection_resets, opts.max_resets, rate_limit, now)
       IN  /\ reported' = PrintMaxResets(to, reported)
           /\ IF to = "done"
              THEN Return("Ok", "max_resets")
              ELSE pc' = to /\ UNCHANGED <<result, reason, held>>
           /\ IF to = "sleeping"
              THEN wake_at' = now + duration_until_reset(rate_limit, now).val
              ELSE UNCHANGED wake_at
    /\ UNCHANGED <<opts, connection_resets, finish, rate_limit, stream,
                   publisher, now, opens, error, send_result, open_fault>>
    /\ UNCHANGED <<live_peak, open_headers, closed, call, batchVars, cmdVars>>

\* tokio::time::sleep(rest).await returns once rest has elapsed
SleepDone ==
    /\ pc = "sleeping"
    /\ now >= wake_at
    /\ pc' = "reconnecting"
    /\ UNCHANGED <<opts, result, reason, connection_resets, finish, summary,
                   rate_limit, stream, publisher, now, wake_at, emitted,
                   seen, opens, scen, error, reported, send_result, open_fault>>
    /\ UNCHANGED <<held, failed, live_peak, open_headers, closed, call, batchVars, cmdVars>>

\* let (rl, s) = stream_data(&bearer_token).await?;
\* connection_resets += 1; rate_limit = rl; stream = s;
ReconnectCountsAttempt(resp) ==
    /\ pc = "reconnecting"
    /\ open_fault' = OpenFault(resp)
    /\ connection_resets' = connection_resets + 1
    /\ IF stream_data(resp).ok
       THEN /\ rate_limit' = stream_data(resp).val
            /\ opens' = opens + 1
            /\ stream' = opens + 1
            /\ pc' = "streaming"
            /\ held' = AssignStream(held, opens + 1)
            /\ live_peak' = Max(live_peak, Cardinality(held) + 1)
            /\ open_headers' = resp.headers
            /\ UNCHANGED <<result, reason, error>>
       ELSE /\ Return("Err", "reconnect")
            /\ error' = stream_data(resp).err
            /\ UNCHANGED <<rate_limit, opens, stream, live_peak, open_headers>>
    /\ wake_at' = 0
    /\ UNCHANGED <<opts, finish, summary, publisher, now, emitted, seen, scen,
                   reported, send_result>>
    /\ UNCHANGED <<failed, closed, call, batchVars, cmdVars>>
ReconnectKeepsRateLimit(resp) ==
    /\ pc = "reconnecting"
    /\ open_fault' = OpenFault(resp)
    /\ IF stream_data(resp).ok
       THEN /\ connection_resets' = connection_resets + 1
            /\ opens' = opens + 1
            /\ stream' = opens + 1
            /\ pc' = "streaming"
            /\ held' = AssignStream(held, opens + 1)
            /\ live_peak' = Max(live_peak, Cardinality(held) + 1)
            /\ open_headers' = resp.headers
            /\ UNCHANGED <<result, reason, error>>
       ELSE /\ Return("Err", "reconnect")
            /\ error' = stream_data(resp).err
            /\ UNCHANGED <<connection_resets, opens, stream, live_peak, open_headers>>
    /\ wake_at' = 0
    /\ UNCHANGED <<rate_limit, opts, finish, summary, publisher, now, emitted, seen,
                   scen, reported, send_result>>
    /\ UNCHANGED <<failed, closed, call, batchVars, cmdVars>>
ReconnectRetriesOpen(resp) ==
    /\ pc = "reconnecting"
    /\ open_fault' = OpenFault(resp)
    /\ IF stream_data(resp).ok
       THEN /\ connection_resets' = connection_resets + 1
            /\ rate_limit' = stream_data(resp).val
            /\ opens' = opens + 1
            /\ stream' = opens + 1
            /\ pc' = "streaming"
            /\ held' = AssignStream(held, opens + 1)
            /\ live_peak' = Max(live_peak, Cardinality(held) + 1)
            /\ open_headers' = resp.headers
       ELSE UNCHANGED <<pc, connection_resets, rate_limit, opens, stream, held,
                        live_peak, open_headers>>
    /\ wake_at' = 0
    /\ UNCHANGED <<result, reason, error, opts, finish, summary, publisher, now,
                   emitted, seen, scen, reported, send_result>>
    /\ UNCHANGED <<failed, closed, call, batchVars, cmdVars>>
Reconnect(resp) ==
    /\ pc = "reconnecting"
    /\ open_fault' = OpenFault(resp)
    /\ IF stream_data(resp).ok
       THEN /\ connection_resets' = connection_resets + 1
            /\ rate_limit' = stream_data(resp).val
            /\ opens' = opens + 1
            /\ stream' = opens + 1
            /\ pc' = "streaming"
            /\ held' = AssignStream(held, opens + 1)
            /\ live_peak' = Max(live_peak, Cardinality(held) + 1)
            /\ open_headers' = resp.headers
            /\ UNCHANGED <<result, reason, error>>
       ELSE /\ Return("Err", "reconnect")
            /\ error' = stream_data(resp).err
            /\ UNCHANGED <<connection_resets, rate_limit, opens, stream, live_peak, open_headers>>
    /\ wake_at' = 0
    /\ UNCHANGED <<opts, finish, summary, publisher, now, emitted, seen, scen,
                   reported, send_result>>
    /\ UNCHANGED <<failed, closed, call, batchVars, cmdVars>>

\* while let Some(chunk) = stream.next().await: the body ended
OnStreamEndReconnects ==
    /\ pc = "streaming"
    /\ pc' = "reconnecting"
    /\ closed' = TRUE
    /\ UNCHANGED <<opts, result, reason, connection_resets, finish, summary,
                   rate_limit, stream, publisher, now, wake_at, emitted, seen,
                   opens, scen, error, reported, send_result, open_fault, held>>
    /\ UNCHANGED <<failed, live_peak, open_headers, call, batchVars, cmdVars>>
OnStreamEnd ==
    /\ pc = "streaming"
    /\ Return("Ok", "closed")
    /\ UNCHANGED <<opts, connection_resets, finish, summary, rate_limit, stream,
                   publisher, now, wake_at, emitted, seen, opens, scen, error,
                   reported, send_result, open_fault>>
    /\ closed' = TRUE
    /\ UNCHANGED <<failed, live_peak, open_headers, call, batchVars, cmdVars>>

\* the clock advances while main is suspended at an await
Tick ==
    /\ pc # "done"
    /\ now < MaxTime
    /\ now' = now + 1
    /\ UNCHANGED <<opts, pc, result, reason, connection_resets, finish, summary,
                   rate_limit, stream, publisher, wake_at, emitted, seen,
                   opens, scen, error, reported, send_result, open_fault>>
    /\ UNCHANGED <<held, failed, live_peak, open_headers, closed, call, batchVars, cmdVars>>

Next ==
    \/ \E resp \in Responses : Connect(resp)
    \/ \E item \in ChunkItems : OnTweet(item)
    \/ \E item \in ChunkItems : OnSmallChunk(item)
    \/ \E item \in ChunkItems : OnParseError(item)
    \/ \E item \in ChunkItems : OnReqwestError(item)
    \/ SleepDone
    \/ \E resp \in Responses : Reconnect(resp)
    \/ OnStreamEnd
    \/ Tick

Spec == Init /\ [][Next]_vars

\* ---------------------------------------- main with the sends on record
\* The same loop with what each publisher.send returned kept in send_result,
\* run without --max-resets.
InitSend ==
    /\ Init
    /\ opts.max_resets = None

OnTweetSent(item, sent) ==
    /\ TweetArm(item, sent)
    /\ send_result' =
         IF ~to_string(MapChunk(item).val).ok THEN send_result
         ELSE IF sent THEN "Ok" ELSE "Err"
    /\ UNCHANGED <<call, batchVars, cmdVars>>

NextSend ==
    \/ \E resp \in Responses : Connect(resp)
    \/ \E item \in ChunkItems, sent \in BOOLEAN : OnTweetSent(item, sent)
    \/ \E item \in ChunkItems : OnSmallChunk(item)
    \/ \E item \in ChunkItems : OnParseError(item)
    \/ \E item \in ChunkItems : OnReqwestError(item)
    \/ SleepDone
    \/ \E resp \in Responses : Reconnect(resp)
    \/ OnStreamEnd
    \/ Tick

SpecSend == InitSend /\ [][NextSend]_vars

\* ------------------------------------------- the library functions alone
\* duration_until_reset, from_headers, stream_data and the parse/serialize
\* pair are applied to arguments drawn from these sets; main does not run.
\* The functions keep nothing between calls, so a behaviour makes one call.
PureRateLimits ==
    [limit : {None, Some(50)}, reset : OptNat(MaxTime + 1), remaining : OptNat(2)]
PureTimes == 0..(MaxTime + 1)
HeaderTexts ==
    {<<>>, <<"x">>, <<"1", "x">>, <<"-", "1">>,
     <<"0">>, <<"1">>, <<"5", "0">>, <<"+", "1">>}
PureHeaderMaps ==
    [limit : {None} \cup {Some(h) : h \in HeaderTexts},
     reset : {None} \cup {Some(h) : h \in HeaderTexts},
     remaining : {None} \cup {Some(h) : h \in HeaderTexts}]
PureResponses == [net : BOOLEAN, status : {200, 429}, headers : PureHeaderMaps]
PureDocs ==
    {NoDoc} \cup
    {[id |-> i, url |-> u] :
        i \in TweetIds,
        u \in {None, Some(<<"http://t.co/x">>), Some(tweetid2url("A"))}}

PureChunks ==
    {RawChunk(Fill(n) \o t, d) :
        n \in {MinChunkLen - 2, MinChunkLen - 1},
        t \in {<<>>, <<"a">>, <<"\"">>, <<"\\">>, <<"\n">>, <<"{", "\"">>, <<"\\", "n">>},
        d \in {NoDoc, [id |-> "A", url |-> None]}}
        \cup {ReqwestErr}

InitPure ==
    /\ opts = [limit |-> None, max_resets |-> None]
    /\ pc = "connecting"
    /\ result = "running"
    /\ error = "none"
    /\ reported = 0
    /\ send_result = "none"
    /\ reason = "none"
    /\ connection_resets = 0
    /\ finish = FALSE
    /\ summary = [processed |-> 0, errors |-> 0]
    /\ rate_limit = NoRateLimit
    /\ stream = 0
    /\ publisher = <<>>
    /\ now = 0
    /\ wake_at = 0
    /\ emitted = <<>>
    /\ seen = [small |-> 0, parse |-> 0, transport |-> 0]
    /\ opens = 0
    /\ scen = 0
    /\ open_fault = "none"
    /\ held = {}
    /\ failed = {}
    /\ live_peak = 0
    /\ open_headers = [limit |-> None, reset |-> None, remaining |-> None]
    /\ closed = FALSE
    /\ call = NoCall
    /\ BatchIdle
    /\ CmdIdle

mainVars == <<opts, pc, result, error, reported, send_result, reason,
              connection_resets, finish, summary, rate_limit, stream, publisher,
              now, wake_at, emitted, seen, opens, scen, open_fault, held,
              failed, live_peak, open_headers, closed>>

CallDurationUntilReset(rl, t) ==
    /\ call = NoCall
    /\ call' = [fn |-> "duration_until_reset", arg |-> [rl |-> rl, now |-> t],
                ret |-> duration_until_reset(rl, t)]
    /\ UNCHANGED <<mainVars, batchVars, cmdVars>>

CallFromHeaders(hm) ==
    /\ call = NoCall
    /\ call' = [fn |-> "from_headers", arg |-> hm, ret |-> from_headers(hm)]
    /\ UNCHANGED <<mainVars, batchVars, cmdVars>>

CallStreamData(resp) ==
    /\ call = NoCall
    /\ call' = [fn |-> "stream_data", arg |-> resp, ret |-> stream_data(resp)]
    /\ UNCHANGED <<mainVars, batchVars, cmdVars>>

\* serde_json::from_slice of a chunk, serde_json::to_string of the value and
\* serde_json::from_slice of the message again
CallRoundTrip(doc) ==
    /\ call = NoCall
    /\ LET first == from_slice(Bytes(MinChunkLen + 2, doc))
           msg == to_string(first.val)
           second == from_slice(Bytes(MinChunkLen + 2, msg.val))
       IN  call' = [fn |-> "round_trip", arg |-> doc,
                    ret |-> [first |-> first, msg |-> msg, second |-> second]]
    /\ UNCHANGED <<mainVars, batchVars, cmdVars>>

\* the closure applied to one item of bytes_stream()
CallMapChunk(item) ==
    /\ call = NoCall
    /\ call' = [fn |-> "map_chunk", arg |-> item, ret |-> MapChunk(item)]
    /\ UNCHANGED <<mainVars, batchVars, cmdVars>>

NextPure ==
    \/ \E rl \in PureRateLimits, t \in PureTimes : CallDurationUntilReset(rl, t)
    \/ \E hm \in PureHeaderMaps : CallFromHeaders(hm)
    \/ \E resp \in PureResponses : CallStreamData(resp)
    \/ \E doc \in PureDocs : CallRoundTrip(doc)
    \/ \E item \in PureChunks : CallMapChunk(item)

SpecPure == InitPure /\ [][NextPure]_vars

\* ------------------------------------------------- examples/jsonl2es.rs
\* A line of the file is a chunk of text: one that spells a StreamResponse
\* document or one that spells none.
Lines ==
    {Bytes(MinChunkLen + 2, [id |-> i, url |-> None]) : i \in TweetIds}
        \cup {Bytes(MinChunkLen, NoDoc)}
Files == UNION {[1..n -> Lines] : n \in 0..MaxLines}

\* jsonl::read: Eof when no byte is left, else the line is taken and parsed
jsonl_read(f, pos) ==
    IF pos > Len(f)
    THEN [kind |-> "Eof", val |-> NoDoc, pos |-> pos]
    ELSE IF from_slice(f[pos]).ok
    THEN [kind |-> "Ok", val |-> from_slice(f[pos]).val, pos |-> pos + 1]
    ELSE [kind |-> "Deserialize", val |-> NoDoc, pos |-> pos + 1]

\* the loop of read_batch
RECURSIVE read_loop(_, _)
read_loop(br, f) ==
    LET r == jsonl_read(f, br.pos)
    IN  IF r.kind = "Ok"
        THEN LET pushed == [br EXCEPT !.pos = r.pos, !.data = Append(@, r.val)]
             IN  IF Len(pushed.data) = br.batch_size
                 THEN pushed
                 ELSE read_loop(pushed, f)
        ELSE IF r.kind = "Eof"
        THEN [br EXCEPT !.pos = r.pos, !.status = "Finished"]
        ELSE read_loop([br EXCEPT !.pos = r.pos], f)

\* self.data.clear(); loop { .. }; &self.data
read_batchNoClear(br, f) == read_loop(br, f)
read_batch(br, f) == read_loop([br EXCEPT !.data = <<>>], f)

\* the answer to a bulk request: the request failed, or a JSON value with
\* or without an items array; an item has an error or a result
BulkItems ==
    {[error |-> FALSE, result |-> "created"],
     [error |-> FALSE, result |-> "updated"],
     [error |-> TRUE, result |-> "none"]}
BulkResponses(n) ==
    {[ok |-> FALSE, items |-> None], [ok |-> TRUE, items |-> None]}
        \cup {[ok |-> TRUE, items |-> Some([i \in 1..n |-> it])] : it \in BulkItems}
CountErrors(items) == Cardinality({i \in 1..Len(items) : items[i].error})
CountResults(items, res) == Cardinality({i \in 1..Len(items) : items[i].result = res})
update_from_json(sm, json) ==
    IF json.items = None THEN sm
    ELSE [created |-> sm.created + CountResults(json.items.val, "created"),
          updated |-> sm.updated + CountResults(json.items.val, "updated"),
          failed |-> sm.failed + CountErrors(json.items.val)]

InitBatch ==
    /\ Init
    /\ opts = [limit |-> None, max_resets |-> None]

\* File::open and BatchReader::new(reader, opts.batch_size)
OpenFile(f, size) ==
    /\ es_pc = "start"
    /\ file' = f
    /\ batch_reader' = [pos |-> 1, batch_size |-> size, status |-> "Reading",
                        data |-> <<>>]
    /\ es_pc' = "read"
    /\ UNCHANGED <<es_summary, bulk, returned>>
    /\ UNCHANGED <<mainVars, call, cmdVars>>

\* let batch = batch_reader.read_batch(); send_message_batch(batch, ..), up
\* to its await: the bulk request is sent
ReadBatch ==
    /\ es_pc = "read"
    /\ batch_reader' = read_batch(batch_reader, file)
    /\ returned' = Append(returned, [batch |-> batch_reader'.data,
                                     status |-> batch_reader'.status])
    /\ bulk' = Append(bulk, batch_reader'.data)
    /\ es_pc' = "sending"
    /\ UNCHANGED <<file, es_summary>>
    /\ UNCHANGED <<mainVars, call, cmdVars>>

\* the answer arrives; summary is updated; the loop ends on Finished.
\* term.clear_last_lines is taken to succeed.
BulkAnswer(json) ==
    /\ es_pc = "sending"
    /\ es_summary' =
         IF json.ok THEN update_from_json(es_summary, json)
         ELSE [es_summary EXCEPT !.failed = @ + Len(batch_reader.data)]
    /\ es_pc' = IF batch_reader.status = "Finished" THEN "done" ELSE "read"
    /\ UNCHANGED <<file, batch_reader, bulk, returned>>
    /\ UNCHANGED <<mainVars, call, cmdVars>>

NextBatch ==
    \/ \E f \in Files, size \in 0..MaxBatch : OpenFile(f, size)
    \/ ReadBatch
    \/ \E json \in BulkResponses(Len(batch_reader.data)) : BulkAnswer(json)

SpecBatch == InitBatch /\ [][NextBatch]_vars

\* ------------------------------------- src/main.rs, no subcommand given
\* What send() and res.chunk() give: the request failed or was answered; a
\* chunk of the body, a read failure, or the end of the body.
SendFailed == [kind |-> "send_err", len |-> 0, doc |-> NoDoc, text |-> <<>>]
EndOfBody == [kind |-> "end", len |-> 0, doc |-> NoDoc, text |-> <<>>]

\* match serde_json::from_slice::<StreamResponse>(&chunk): the lines the two
\* arms write
CmdOutputSkipsSmall(item) ==
    IF SmallChunkThreshold(item.len) THEN <<>>
    ELSE IF from_slice(item).ok
    THEN <<[to |-> "stdout", data |-> from_slice(item).val, chunk |-> <<>>]>>
    ELSE <<[to |-> "stderr", data |-> NoDoc, chunk |-> fmt_bytes(item.text)]>>
CmdOutput(item) ==
    IF from_slice(item).ok
    THEN <<[to |-> "stdout", data |-> from_slice(item).val, chunk |-> <<>>]>>
    ELSE <<[to |-> "stderr", data |-> NoDoc, chunk |-> fmt_bytes(item.text)]>>
MainProgramHere == [to |-> "stdout", data |-> NoDoc, chunk |-> <<"main program here...">>]

InitCmd ==
    /\ Init
    /\ opts = [limit |-> None, max_resets |-> None]

\* client.get(STREAM_URL)...send().await?
CmdSend(answered) ==
    /\ cmd_pc = "connecting"
    /\ IF answered
       THEN cmd_pc' = "reading" /\ UNCHANGED <<cmd_result, cmd_drawn>>
       ELSE /\ cmd_pc' = "done"
            /\ cmd_result' = "Err"
            /\ cmd_drawn' = Append(cmd_drawn, SendFailed)
    /\ UNCHANGED cmd_log
    /\ UNCHANGED <<mainVars, call, batchVars>>

\* while let Some(chunk) = res.chunk().await? { match .. }
CmdChunk(item) ==
    /\ cmd_pc = "reading"
    /\ Len(cmd_drawn) < MaxDraws
    /\ cmd_drawn' = Append(cmd_drawn, item)
    /\ IF item.kind = "err"
       THEN cmd_pc' = "done" /\ cmd_result' = "Err" /\ UNCHANGED cmd_log
       ELSE /\ cmd_log' = cmd_log \o CmdOutput(item)
            /\ UNCHANGED <<cmd_pc, cmd_result>>
    /\ UNCHANGED <<mainVars, call, batchVars>>

\* res.chunk() gives None: Ok(()), and main prints and returns Ok(())
CmdEnd ==
    /\ cmd_pc = "reading"
    /\ cmd_drawn' = Append(cmd_drawn, EndOfBody)
    /\ cmd_log' = Append(cmd_log, MainProgramHere)
    /\ cmd_pc' = "done"
    /\ cmd_result' = "Ok"
    /\ UNCHANGED <<mainVars, call, batchVars>>

NextCmd ==
    \/ \E answered \in BOOLEAN : CmdSend(answered)
    \/ \E item \in ChunkItems : CmdChunk(item)
    \/ CmdEnd

SpecCmd == InitCmd /\ [][NextCmd]_vars

\* ----------------------------------------------------------------- claims
Ids(seq) == [i \in 1..Len(seq) |-> seq[i].id]
EmittedIds == [i \in 1..Len(emitted) |-> emitted[i].doc.id]
BudgetLeft == ~IsSome(opts.max_resets) \/ connection_resets < opts.max_resets.val
\* the step drew a chunk of this kind from the session
DrewSmall == seen'.small = seen.small + 1
DrewUnparsable == seen'.parse = seen.parse + 1
DrewFailure == seen'.transport = seen.transport + 1
DrewTweet == Len(emitted') = Len(emitted) + 1

\* C1: with --limit k the loop makes no more than k sends, and once it has
\* drawn a tweet and made k sends it has left the loop with Ok.
C1_ExactlyLimitSends ==
    IsSome(opts.limit) =>
        /\ Len(publisher) <= opts.limit.val
        /\ (emitted # <<>> /\ Len(publisher) = opts.limit.val
                => pc = "done" /\ result = "Ok" /\ reason = "limit")

\* C2: with max_resets configured connection_resets never exceeds it, and
\* the read failure drawn with the counter at the bound ends the loop: no
\* more than max_resets + 1 read failures are ever drawn.
C2_ResetsBounded ==
    IsSome(opts.max_resets) =>
        /\ connection_resets <= opts.max_resets.val
        /\ seen.transport <= opts.max_resets.val + 1
        /\ (seen.transport = opts.max_resets.val + 1
                => pc = "done" /\ reason = "max_resets")
C2_Witness ==
    /\ opts.max_resets = Some(MaxResets)
    /\ connection_resets = MaxResets
    /\ seen.transport = MaxResets + 1
    /\ pc = "done"

C5_ParseFailure ==
    [][DrewUnparsable
        => /\ summary'.errors = summary.errors + 1
           /\ summary'.processed = summary.processed
           /\ pc' = "streaming"
           /\ UNCHANGED <<connection_resets, publisher, opens, stream,
                          rate_limit, result>>]_vars
C5_Witness ==
    /\ seen = [small |-> 0, parse |-> 2, transport |-> 0]
    /\ Len(emitted) = 1
    /\ summary = [processed |-> 1, errors |-> 2]
    /\ opens = 1
    /\ pc = "streaming"

\* C6: a chunk is skipped as too small exactly when it is shorter than 10
\* bytes: a shorter chunk changes no counter, sends nothing and leaves the
\* rate limit and the session alone; a chunk of 10 bytes or more is parsed
\* and counted, as an error or as a tweet.
C6_SmallChunk ==
    [][/\ (DrewSmall
             => UNCHANGED <<summary, connection_resets, rate_limit, stream,
                            publisher, opens, pc, result>>)
       /\ (DrewUnparsable \/ DrewTweet => summary' # summary)]_vars
C6_Witness ==
    /\ seen.small = 2
    /\ seen.parse = 1
    /\ summary = [processed |-> 0, errors |-> 1]

\* C7: the messages sent are the tweets drawn, in the order drawn, none
\* skipped, repeated or dropped as a duplicate, within a session and across
\* reconnects.
C7_SinkOrder ==
    /\ Ids(publisher) = EmittedIds
    /\ \A i \in 1..Len(emitted) : \A j \in i..Len(emitted) :
           emitted[i].session <= emitted[j].session
C7_Witness ==
    /\ Len(emitted) = 3
    /\ EmittedIds = <<"B", "A", "B">>
    /\ emitted[1].session = 1
    /\ emitted[2].session = 2
    /\ emitted[3].session = 2

\* C8: a read failure drawn with connection_resets equal to max_resets adds
\* one to the error counter and leaves the loop, with no sleep and no
\* stream_data call, whatever the rate limit says; nothing happens after.
C8_BudgetExhausted ==
    [][/\ (DrewFailure /\ opts.max_resets = Some(connection_resets)
             => /\ summary'.errors = summary.errors + 1
                /\ pc' = "done" /\ reason' = "max_resets"
                /\ UNCHANGED <<opens, wake_at, connection_resets, stream>>)
       /\ (pc = "done" => UNCHANGED vars)]_vars
C8_Witness ==
    /\ pc = "done" /\ reason = "max_resets"
    /\ rate_limit.remaining = Some(0)
    /\ IsSome(rate_limit.reset) /\ rate_limit.reset.val > now

\* C9: a read failure with budget left starts a sleep until reset when
\* remaining is 0 and reset is later than now, and goes straight to the
\* stream_data call when the snapshot asks for no wait; a sleep ends only
\* once its deadline has passed, and nothing is opened or sent during it.
C9_WaitBeforeOpen ==
    [][/\ (DrewFailure /\ BudgetLeft
             => LET zero == rate_limit.remaining = Some(0) /\ IsSome(rate_limit.reset)
                IN  /\ (zero /\ rate_limit.reset.val > now
                          => pc' = "sleeping" /\ wake_at' = rate_limit.reset.val)
                    /\ (~zero \/ rate_limit.reset.val < now => pc' = "reconnecting")
                    /\ (pc' = "sleeping" => wake_at' >= now)
                    /\ pc' \in {"sleeping", "reconnecting"}
                    /\ UNCHANGED <<opens, stream, publisher>>)
       /\ (pc = "sleeping"
             => /\ UNCHANGED <<opens, publisher, stream, summary, wake_at>>
                /\ pc' \in {"sleeping", "reconnecting"}
                /\ (pc' = "reconnecting" => now >= wake_at))]_vars
C9_Witness ==
    /\ pc = "reconnecting"
    /\ wake_at >= 1
    /\ now >= wake_at

\* C10: connection_resets changes only by one, only when the stream_data
\* call of a reconnect returns Ok, and then always.
C10_ResetCounter ==
    [][/\ (connection_resets' # connection_resets
             => /\ connection_resets' = connection_resets + 1
                /\ pc = "reconnecting" /\ pc' = "streaming"
                /\ opens' = opens + 1)
       /\ (pc = "reconnecting" /\ pc' = "streaming"
             => connection_resets' = connection_resets + 1)]_vars
C10_Witness ==
    /\ connection_resets = 2
    /\ opens = 3
    /\ pc = "streaming"

\* what a header text stands for, written out
HeaderNumber ==
    {<<<<"0">>, 0>>, <<<<"1">>, 1>>, <<<<"2">>, 2>>, <<<<"3">>, 3>>,
     <<<<"5", "0">>, 50>>, <<<<"+", "1">>, 1>>}
WellFormed(h) == \E p \in HeaderNumber : p[1] = h
NumberOf(h) == (CHOOSE p \in HeaderNumber : p[1] = h)[2]
ExpectedField(h) == IF h = None THEN None ELSE Some(NumberOf(h.val))
SomeMalformed(hm) ==
    \/ (hm.limit # None /\ ~WellFormed(hm.limit.val))
    \/ (hm.reset # None /\ ~WellFormed(hm.reset.val))
    \/ (hm.remaining # None /\ ~WellFormed(hm.remaining.val))

\* C11: duration_until_reset gives no wait whenever remaining is not
\* Some(0), whatever reset and now are, and gives reset - now, a positive
\* duration, when remaining is Some(0) and reset is later than now.
C11_DurationUntilReset ==
    call.fn = "duration_until_reset" =>
        LET rl == call.arg.rl
            t == call.arg.now
        IN  /\ (rl.remaining # Some(0) => call.ret = None)
            /\ (rl.remaining = Some(0) /\ IsSome(rl.reset) /\ rl.reset.val > t
                  => call.ret = Some(rl.reset.val - t) /\ call.ret.val > 0)
C11_Witness ==
    /\ call.fn = "duration_until_reset"
    /\ call.arg.rl.remaining = Some(0)
    /\ call.arg.rl.reset = Some(MaxTime + 1)
    /\ call.arg.now = 0
    /\ call.ret = Some(MaxTime + 1)

C13_FromHeaders ==
    /\ (call.fn = "from_headers" =>
          /\ (call.ret.ok <=> ~SomeMalformed(call.arg))
          /\ (call.ret.ok =>
                /\ call.ret.val.limit = ExpectedField(call.arg.limit)
                /\ call.ret.val.reset = ExpectedField(call.arg.reset)
                /\ call.ret.val.remaining = ExpectedField(call.arg.remaining)))
    /\ (call.fn = "stream_data" /\ SomeMalformed(call.arg.headers) => ~call.ret.ok)
C13_Witness ==
    /\ call.fn = "from_headers"
    /\ call.arg = [limit |-> None, reset |-> Some(<<"5", "0">>),
                   remaining |-> Some(<<"1", "x">>)]
    /\ ~call.ret.ok

\* C15: stream_data returns a stream only for a request that succeeded with
\* a success status.
C15_StatusChecked ==
    call.fn = "stream_data" /\ call.ret.ok =>
        call.arg.net /\ call.arg.status = 200

Leaves == pc # "done" /\ pc' = "done"
HitsLimit == DrewTweet /\ opts.limit = Some(summary'.processed)

\* C14 as stated: a malformed rate-limit header on an open does not end the
\* run; the controller goes on to a new open.
C14_MalformedHeaderRetried == open_fault = "header" => pc # "done"
\* C14 amended: a malformed rate-limit header on an open, the first one or a
\* reconnect, ends the run with the header error whatever budget is left:
\* no stream is made, no reset is counted and the failed open is not counted
\* as an error.
C14_MalformedHeaderEndsRun ==
    open_fault = "header" =>
        /\ pc = "done" /\ result = "Err" /\ error = "header"
        /\ reason \in {"connect", "reconnect"}
        /\ stream = opens
        /\ connection_resets = (IF opens = 0 THEN 0 ELSE opens - 1)
        /\ summary.errors = seen.parse + seen.transport
C14_Witness ==
    /\ open_fault = "header"
    /\ pc = "done" /\ reason = "reconnect"
    /\ BudgetLeft
    /\ opens = 1

C17_OpenFailureRetried ==
    pc = "done" /\ reason = "reconnect" /\ open_fault = "net" => ~BudgetLeft
\* C17 amended: every failure drawn while reading a session is followed by a
\* new open while budget remains, and the run ends on a read failure only
\* with the budget used up; a failure of an open call is not retried and
\* ends the run with the error whatever budget remains.
C17_ReadFailuresRetried ==
    /\ (open_fault # "none" => pc = "done" /\ result = "Err" /\ error # "none")
    /\ (pc = "done" /\ reason = "max_resets" => ~BudgetLeft)
    /\ (pc = "streaming" => opens = seen.transport + 1)
    /\ (pc \in {"sleeping", "reconnecting"} => BudgetLeft /\ opens = seen.transport)
C17_Witness ==
    /\ pc = "done" /\ reason = "reconnect"
    /\ open_fault = "net" /\ error = "reqwest"
    /\ opens = 2
    /\ BudgetLeft

RECURSIVE Unescape(_)
Unescape(s) ==
    IF s = <<>> THEN <<>>
    ELSE IF Head(s) = "\\" /\ Len(s) >= 2
    THEN <<IF s[2] = "n" THEN "\n" ELSE s[2]>> \o Unescape(Tail(Tail(s)))
    ELSE <<Head(s)>> \o Unescape(Tail(s))
Unparsable(item) == item.kind = "bytes" /\ item.len >= 10 /\ item.doc = NoDoc

C22_FailedSessionNotRead ==
    /\ (pc = "streaming" => stream \notin failed /\ stream = opens)
    /\ (pc \in {"sleeping", "reconnecting"} => stream \in failed)
    /\ failed \subseteq 1..opens
    /\ Cardinality(failed) = seen.transport
    /\ \A i \in 1..Len(emitted) : emitted[i].session \in 1..opens
C22_Witness ==
    /\ pc = "streaming"
    /\ failed = {1} /\ stream = 2
    /\ Len(emitted) = 2
    /\ emitted[1].session = 1 /\ emitted[2].session = 2

\* C23 as stated: the session a read failure was drawn from is dropped
\* before the sleep and before the stream_data call, so two sessions never
\* exist together.
C23_ReleasedBeforeWait ==
    /\ (pc \in {"sleeping", "reconnecting"} => held \cap failed = {})
    /\ live_peak <= 1
\* C23 amended: main owns at most one session whenever it is suspended and
\* reads only that one; the failed session stays owned through the sleep and
\* the stream_data call and is dropped when the new one is assigned, so for
\* that moment two sessions exist; after main returns none is owned.
C23_OneSessionOwned ==
    /\ Cardinality(held) <= 1
    /\ (pc = "streaming" => held = {stream})
    /\ (pc \in {"sleeping", "reconnecting"} => held = {stream} /\ stream \in failed)
    /\ (pc \in {"connecting", "done"} => held = {})
    /\ live_peak <= 2
    /\ (live_peak = 2 <=> opens >= 2)
C23_Witness ==
    /\ pc = "streaming"
    /\ held = {2} /\ failed = {1}
    /\ live_peak = 2
    /\ wake_at = 0 /\ now = MaxTime

\* C24: rate_limit is the snapshot of the headers of the last response a
\* session was made of, field by field, and NoRateLimit before the first; a
\* sleep runs to the reset of those headers, which said remaining 0.
C24_SnapshotOfLastOpen ==
    /\ (opens = 0 => rate_limit = NoRateLimit)
    /\ (opens > 0 =>
          rate_limit = [limit |-> ExpectedField(open_headers.limit),
                        reset |-> ExpectedField(open_headers.reset),
                        remaining |-> ExpectedField(open_headers.remaining)])
    /\ (pc = "sleeping" =>
          /\ open_headers.remaining = Some(<<"0">>)
          /\ IsSome(open_headers.reset)
          /\ wake_at = NumberOf(open_headers.reset.val))
C24_Witness ==
    /\ opens = 2
    /\ pc = "sleeping"
    /\ open_headers.reset = Some(<<"1">>)
    /\ rate_limit = [limit |-> Some(50), reset |-> Some(1), remaining |-> Some(0)]
    /\ now = 0

\* C25: when the body of the session ends main is done at once with Ok: no
\* new open, no maximum-resets line, whatever the limit, the budget and the
\* snapshot are.
C25_CleanCloseReturnsOk ==
    closed =>
        /\ pc = "done" /\ result = "Ok" /\ error = "none"
        /\ reported = 0
        /\ stream \notin failed
        /\ stream = opens
        /\ held = {}
C25_Witness ==
    /\ closed
    /\ opts = [limit |-> Some(MaxLimit), max_resets |-> Some(MaxResets)]
    /\ summary.processed = 1
    /\ connection_resets = 0 /\ seen.transport = 0
    /\ rate_limit.remaining = Some(0) /\ rate_limit.reset = Some(MaxTime)
    /\ now = 0

\* C26: a stream_data call that fails ends the run with its error: the first
\* one before anything is sent, the one of a reconnect with the reset
\* counter as it was, whatever budget is left.
C26_FailedOpenNotRetried ==
    open_fault # "none" =>
        /\ pc = "done" /\ result = "Err"
        /\ error = (IF open_fault = "net" THEN "reqwest" ELSE "header")
        /\ (opens = 0 =>
              reason = "connect" /\ publisher = <<>> /\ connection_resets = 0)
        /\ (opens > 0 =>
              /\ reason = "reconnect"
              /\ connection_resets = opens - 1
              /\ failed = 1..opens)
C26_Witness ==
    /\ open_fault = "net"
    /\ reason = "reconnect"
    /\ opts.max_resets = Some(MaxResets)
    /\ connection_resets = 0
    /\ Len(publisher) = 1

\* C27 as stated: in every state the successful opens are one more than
\* connection_resets.
C27_OpensAreResetsPlusOne == opens = 1 + connection_resets
\* C27 amended: once the first open has succeeded the successful opens are
\* one more than connection_resets, and before it, or when it failed, both
\* are 0; with max_resets = m there are at most m + 1 successful opens and at
\* most m + 1 read failures drawn.
C27_OpensAfterFirst ==
    /\ (opens >= 1 => opens = 1 + connection_resets)
    /\ (opens = 0 => connection_resets = 0 /\ pc \in {"connecting", "done"})
    /\ (IsSome(opts.max_resets) =>
          /\ opens <= opts.max_resets.val + 1
          /\ seen.transport <= opts.max_resets.val + 1)
C27_Witness ==
    /\ opts.max_resets = Some(MaxResets)
    /\ opens = MaxResets + 1
    /\ seen.transport = MaxResets + 1
    /\ pc = "done"

\* C28: processed is the number of messages handed to the sink, whether the
\* send returned Ok or Err, and errors is the number of unparsable chunks
\* plus the number of read failures drawn; small chunks, sleeps and opens
\* count for nothing.
C28_Counters ==
    /\ summary.processed = Len(publisher)
    /\ summary.processed = Len(emitted)
    /\ summary.errors = seen.parse + seen.transport
C28_Witness ==
    /\ send_result = "Err"
    /\ summary = [processed |-> 1, errors |-> 2]
    /\ seen = [small |-> 1, parse |-> 1, transport |-> 1]
    /\ opens = 2

\* the records a stretch of lines holds, in order
RECURSIVE RecordsOf(_)
RecordsOf(lines) ==
    IF lines = <<>> THEN <<>>
    ELSE IF Head(lines).doc = NoDoc THEN RecordsOf(Tail(lines))
    ELSE <<[id |-> Head(lines).doc.id,
            url |-> <<"https://twitter.com/i/web/status/", Head(lines).doc.id>>]>>
             \o RecordsOf(Tail(lines))
RECURSIVE Concat(_)
Concat(seqs) == IF seqs = <<>> THEN <<>> ELSE Head(seqs) \o Concat(Tail(seqs))
Batches == [i \in 1..Len(returned) |-> returned[i].batch]

\* C29: with batch_size >= 1 the batches returned so far, put end to end,
\* are the records of the lines read so far in file order, and of the whole
\* file once main is done; no batch is larger than batch_size; status is
\* Finished only with the end of the file read; there is one bulk request
\* per read_batch call, carrying its batch, and only the last call made
\* returned with status Finished, after which main makes no other.
C29_Batches ==
    batch_reader.batch_size >= 1 /\ es_pc # "start" =>
        /\ Concat(Batches) = RecordsOf(SubSeq(file, 1, batch_reader.pos - 1))
        /\ \A i \in 1..Len(returned) : Len(returned[i].batch) <= batch_reader.batch_size
        /\ (batch_reader.status = "Finished" => batch_reader.pos = Len(file) + 1)
        /\ bulk = Batches
        /\ \A i \in 1..(Len(returned) - 1) : returned[i].status = "Reading"
        /\ (es_pc = "done" =>
              /\ returned[Len(returned)].status = "Finished"
              /\ Concat(Batches) = RecordsOf(file))
        /\ (es_pc = "read" => batch_reader.status = "Reading")
C29_Witness ==
    /\ es_pc = "done"
    /\ batch_reader.batch_size = 1
    /\ Len(file) = 3
    /\ file[2].doc = NoDoc
    /\ Len(bulk) = 3
    /\ bulk[1] # bulk[2]
    /\ bulk[3] = <<>>

\* the chunks among what was drawn, in order
ChunksDrawn == SelectSeq(cmd_drawn, LAMBDA it : it.kind = "bytes")
LastDrawn == cmd_drawn[Len(cmd_drawn)]

\* C30: the stream command writes one line per chunk drawn, in order: the
\* tweet for a chunk that spells a document and a parse error for any other
\* chunk, under 10 bytes or not, and reads on; the first read failure ends
\* it with Err, the end of the body with Ok, and nothing is opened again.
C30_StreamCommand ==
    LET n == Len(ChunksDrawn)
    IN  /\ Len(cmd_log) = n + (IF cmd_result = "Ok" THEN 1 ELSE 0)
        /\ \A i \in 1..n :
             IF ChunksDrawn[i].doc # NoDoc
             THEN /\ cmd_log[i].to = "stdout"
                  /\ cmd_log[i].data.id = ChunksDrawn[i].doc.id
             ELSE /\ cmd_log[i].to = "stderr"
                  /\ Len(cmd_log[i].chunk) >= ChunksDrawn[i].len + 3
        /\ \A i \in 1..(Len(cmd_drawn) - 1) : cmd_drawn[i].kind = "bytes"
        /\ (cmd_result = "Err" <=>
              cmd_drawn # <<>> /\ LastDrawn.kind \in {"err", "send_err"})
        /\ (cmd_result = "Ok" <=> cmd_drawn # <<>> /\ LastDrawn.kind = "end")
        /\ (cmd_result = "running" <=> cmd_pc # "done")
C30_Witness ==
    /\ cmd_result = "Err"
    /\ Len(cmd_drawn) = 4
    /\ cmd_drawn[1] = Bytes(MinChunkLen - 1, NoDoc)
    /\ cmd_drawn[2].doc.id = "A"
    /\ cmd_drawn[3] = Bytes(MinChunkLen, NoDoc)
    /\ cmd_drawn[4] = ReqwestErr
    /\ Len(cmd_log) = 3

====
